---- MODULE Spec2Model ----
(***************************************************************************)
(* Model of bztnewrelic/newrelicplugin.py: the NewRelicUploader reporter   *)
(* (prepare / startup / aggregated_second / check / post_process), the     *)
(* Session batch-send with its retry loop, the send_with_retry decorator   *)
(* and the DashboardManager lookup-or-create state machine.                *)
(*                                                                         *)
(* The host engine calls the handlers one at a time; a handler that makes  *)
(* several remote calls is a sequence of steps, one per remote call, with  *)
(* the reply of the remote side drawn nondeterministically.                *)
(***************************************************************************)
EXTENDS Integers, Sequences, FiniteSets, TLC

(***************************************************************************)
(* Bounds of the model.                                                    *)
(***************************************************************************)
\* number of sample windows the aggregator delivers in one run
MaxSamples == 2
\* window timestamps are drawn from 1..MaxTs, in any order
MaxTs == 2
\* the clock starts at Epoch (time.time() is far above every send interval)
Epoch == 10
\* the clock advances at most Horizon seconds during the run
Horizon == 2
\* an entity search answers with 0..MaxCount entities
MaxCount == 2
\* raw durations are the multiples of 1 / RawDen second up to (MaxRaw + 2) / RawDen
RawDen == 2
MaxRaw == 1

MaxTime == Epoch + Horizon

(***************************************************************************)
(* Program constants.                                                      *)
(***************************************************************************)
\* Session.__init__: self._retry_limit = 5
SessionRetryLimit == 5
\* Session.__init__: self.timeout = 30
SessionTimeout == 30
\* NewRelicUploader.__init__: self.send_interval = 5
DefaultSendInterval == 5
\* NewRelicUploader.__init__: self.first_ts = sys.maxsize (2^63 - 1; the model
\* keeps the largest integer TLC represents, above every timestamp)
SysMaxsize == 2147483647
\* DashboardManager.__init__: self.retry_limit = 5
DashboardRetryLimit == 5
\* dashboard_create: time.sleep(3) after the create mutation
CreateSettleDelay == 3
\* dashboard_create: time.sleep(10) between two polls
PollDelay == 10
\* create_pdf: time.sleep(10) before the snapshot mutation
PdfSettleDelay == 10
\* Session.ping: result.status >= 300 is a failure
PingStatusLimit == 300

None == "None"
\* URLs and guids are tuples, so that a permalink can carry the entity it names
NoneUrl == <<"None">>
\* NewRelicUploader.__init__ default URL, and the fallback of dashboard_create
DefaultDashboardUrl == <<"https://one.newrelic.com/dashboards">>
FallbackUrl == <<"https://one.newrelic.com/dashboards">>
EmptyGuid == <<"">>

(***************************************************************************)
(* Exceptions a transport call can raise, and Python's isinstance over the *)
(* classes the except clauses name.  ReadTimeout stands for the classes    *)
(* of NETWORK_PROBLEMS that derive from IOError (URLError, SSLError,       *)
(* ReadTimeout); TaurusNetworkError does not derive from IOError;          *)
(* ValueError stands for every exception outside NETWORK_PROBLEMS.         *)
(***************************************************************************)
TransportErrors == {"IOError", "ReadTimeout", "TaurusNetworkError", "ValueError"}

Bases(e) ==
    CASE e = "IOError" -> {"IOError", "Exception", "BaseException"}
      [] e = "ReadTimeout" -> {"ReadTimeout", "IOError", "Exception", "BaseException"}
      [] e = "URLError" -> {"URLError", "IOError", "Exception", "BaseException"}
      [] e = "SSLError" -> {"SSLError", "IOError", "Exception", "BaseException"}
      [] e = "TaurusNetworkError" -> {"TaurusNetworkError", "BaseException"}
      [] e = "TaurusConfigError" -> {"TaurusConfigError", "BaseException"}
      [] e = "KeyboardInterrupt" -> {"KeyboardInterrupt", "BaseException"}
      [] OTHER -> {e, "Exception", "BaseException"}

IsInstance(e, classes) == Bases(e) \cap classes # {}

NETWORK_PROBLEMS == {"IOError", "URLError", "SSLError", "ReadTimeout", "TaurusNetworkError"}

\* the transient-network category of the batch-send
IsNetworkError(e) == IsInstance(e, NETWORK_PROBLEMS)

(***************************************************************************)
(* Settings the host hands to prepare.                                     *)
(***************************************************************************)
\* "send-interval": 1 second
SendIntervalSettings == {"1s"}
\* bzt.utils.dehumanize_time of a setting
dehumanize_time(setting) == IF setting = "1s" THEN 1 ELSE DefaultSendInterval
\* "static-report": absent (the default, the string 'false') or false
StaticReportSettings == {"'false'", "False"}
\* "account-id": absent ('') or configured
AccountIdSettings == {"", "acct"}
\* what api_token_processor / token_processor resolve to
ApiTokenResults == {None, "api-key"}
TokenResults == {None, "", "ingest-key"}
\* statuses the probe can answer with
PingStatuses == {200, 300, 403}

Min(a, b) == IF a < b THEN a ELSE b
Max(a, b) == IF a > b THEN a ELSE b

\* Python truthiness of the static_report attribute (a non-empty string is true)
Truthy(v) == v \notin {"False", "", None}

Permalink(kind, i) == <<"permalink", kind, i>>
Guid(kind, i) == <<"guid", kind, i>>

VARIABLES
    pc,                      \* position of the host / of the running handler
    handler,                 \* the handler that runs: prepare, check, post_process
    raised,                  \* exception that escaped the last handler, or None
    now,                     \* time.time()
    kpi_buffer,              \* NewRelicUploader.kpi_buffer
    send_interval,           \* NewRelicUploader.send_interval
    last_dispatch,           \* NewRelicUploader.last_dispatch
    first_ts,                \* NewRelicUploader.first_ts
    last_ts,                 \* NewRelicUploader.last_ts
    dashboard_generator_on,  \* NewRelicUploader.dashboard_generator_on
    dashboard_url,           \* NewRelicUploader.dashboard_url
    static_report,           \* NewRelicUploader.static_report
    account_id,              \* NewRelicUploader.account_id
    api_token,               \* DashboardManager.api_token
    gql,                     \* kinds of GraphQL requests the running handler issued
    listener,                \* the uploader is a listener of the aggregator
    metric_client,           \* Session.metric_client: None, open, closed
    timeout,                 \* Session.timeout
    token,                   \* Session.token
    ping_status,             \* status the probe of prepare answered with (0: no probe)
    data,                    \* the batch __send_data was called with
    round,                   \* send_with_retry: 1 = first call, 2 = the retry
    retry_limit,             \* Session._request: the local retry budget
    dashboard_guid,          \* DashboardManager.dashboard_guid
    retry,                   \* DashboardManager.dashboard_create: local retry
    nextId,                  \* windows delivered so far
    \* observations of the run
    attempts,                \* send_batch calls of the current/last _request
    allNetwork,              \* every failure of that _request was a network error
    flushAllNetwork,         \* every transport call of the current/last flush failed so
    req_result,              \* how the last _request ended: None, returned, or the exception
    last_flush,              \* clock at the last flush started by check (0: none)
    closes,                  \* calls of Session.client_close
    dl_count,                \* count of the search response of the last dashboard_link
    dl_ret,                  \* what the last dashboard_link returned
    creates,                 \* dashboard_create invocations of that dashboard_link
    mutations,               \* create mutations issued by that dashboard_link
    polls,                   \* parent-id searches issued by that dashboard_create
    last_poll,               \* reply to the last of them: ready, notready, interrupt
    dropped,                 \* a flush of this run ended with its batch skipped
    sleeps,                  \* time.sleep durations of the running handler
    pdf_reply,               \* create_pdf: reply to the snapshot mutation, or None
    pdf_mutations,           \* create_pdf: snapshot mutations issued
    report_saved,            \* create_pdf: the report file was written
    checks,                  \* checks of the running prepare that passed
    \* a function of the module called on its own
    call,                    \* the function and its arguments, or NoCall
    result                   \* what it returned, or Pending

uploaderVars == <<pc, handler, raised, now, kpi_buffer, send_interval, last_dispatch,
          first_ts, last_ts, dashboard_generator_on, dashboard_url, static_report,
          account_id, api_token, gql, listener, metric_client, timeout, token, ping_status,
          data, round, retry_limit,
          dashboard_guid, retry, nextId, attempts, allNetwork, flushAllNetwork,
          req_result,
          last_flush, closes, dl_count, dl_ret, creates, mutations,
          polls, last_poll, dropped, sleeps, pdf_reply, pdf_mutations, report_saved, checks>>

pdfObs == <<pdf_reply, pdf_mutations, report_saved>>

fnVars == <<call, result>>

vars == <<uploaderVars, fnVars>>

NoCall == [fn |-> "none"]
Pending == <<"pending">>

cfgVars == <<send_interval, static_report, account_id, api_token>>
bufVars == <<kpi_buffer, nextId>>
tsVars == <<first_ts, last_ts>>
sessionVars == <<metric_client, timeout, closes, token, ping_status>>
reqVars == <<data, round, retry_limit, attempts, allNetwork, flushAllNetwork, req_result>>
dashState == <<dashboard_generator_on, dashboard_url, dashboard_guid>>
linkObs == <<dl_count, dl_ret, creates, mutations, polls, last_poll, retry>>
clockVars == <<now, last_dispatch, last_flush>>

(***************************************************************************)
(* NewRelicUploader.__init__, Session.__init__, DashboardManager.__init__  *)
(***************************************************************************)
InitUploader ==
    /\ pc = "init"
    /\ handler = None
    /\ raised = None
    /\ now = Epoch
    /\ kpi_buffer = <<>>
    /\ send_interval = DefaultSendInterval
    /\ last_dispatch = 0
    /\ first_ts = SysMaxsize
    /\ last_ts = 0
    /\ dashboard_generator_on = FALSE
    /\ dashboard_url = DefaultDashboardUrl
    /\ static_report = None
    /\ account_id = None
    /\ api_token = None
    /\ gql = {}
    /\ listener = FALSE
    /\ metric_client = None
    /\ timeout = SessionTimeout
    /\ token = None
    /\ ping_status = 0
    /\ data = <<>>
    /\ round = 0
    /\ retry_limit = 0
    /\ dashboard_guid = EmptyGuid
    /\ retry = 0
    /\ nextId = 0
    /\ attempts = 0
    /\ allNetwork = TRUE
    /\ flushAllNetwork = FALSE
    /\ req_result = None
    /\ last_flush = 0
    /\ closes = 0
    /\ dl_count = -1
    /\ dl_ret = <<"unset">>
    /\ creates = 0
    /\ mutations = 0
    /\ polls = 0
    /\ last_poll = None
    /\ dropped = FALSE
    /\ sleeps = <<>>
    /\ pdf_reply = None
    /\ pdf_mutations = 0
    /\ report_saved = FALSE
    /\ checks = {}

Init ==
    /\ InitUploader
    /\ call = NoCall
    /\ result = Pending

(***************************************************************************)
(* The end of a handler, and the end of the operations it runs.  What a    *)
(* finished operation leaves in its locals is dropped with its frame.      *)
(***************************************************************************)
ResetRequest ==
    /\ data' = <<>>
    /\ round' = 0
    /\ retry_limit' = 0
    /\ attempts' = 0
    /\ allNetwork' = TRUE
    /\ flushAllNetwork' = FALSE
    /\ req_result' = None

ResetLink ==
    /\ dl_count' = -1
    /\ dl_ret' = <<"unset">>
    /\ creates' = 0
    /\ mutations' = 0
    /\ polls' = 0
    /\ last_poll' = None
    /\ retry' = 0

\* the handler returns to the host
Return(to) ==
    /\ handler' = None
    /\ raised' = None
    /\ pc' = to

\* an exception leaves the handler
Raise(e, to) ==
    /\ handler' = None
    /\ raised' = e
    /\ pc' = to

(***************************************************************************)
(* The GraphQL backend.  A request with no API key is never answered with  *)
(* data; with a key the backend may answer or fail.                        *)
(***************************************************************************)
Replies(key, good) == IF key = None THEN {"error"} ELSE good \cup {"error"}

(***************************************************************************)
(* NewRelicUploader.prepare                                                *)
(***************************************************************************)
\* a token test that enables the generator whatever was resolved
GeneratorEnabled_Always(tok) == TRUE

\* "if not api_token: ... = False else: ... = True"
GeneratorEnabled(tok) == Truthy(tok)

\* settings, api_token_processor, DashboardManager() and client_init
Prepare ==
    /\ UNCHANGED <<fnVars, pdfObs>>
    /\ pc = "init"
    /\ \E si \in SendIntervalSettings, sr \in StaticReportSettings,
          acc \in AccountIdSettings, tok \in ApiTokenResults :
          /\ send_interval' = dehumanize_time(si)
          /\ static_report' = sr
          /\ account_id' = acc
          /\ api_token' = tok
          /\ dashboard_generator_on' = GeneratorEnabled(tok)
          /\ checks' = IF tok = None THEN {} ELSE {"token"}
    /\ handler' = "prepare"
    /\ raised' = None
    /\ pc' = "p_account"
    /\ UNCHANGED <<clockVars, dropped, bufVars, tsVars, listener, gql, sleeps, sessionVars,
                   reqVars, dashboard_url, dashboard_guid, linkObs>>

\* DashboardManager.get_account_id: the first account, or '' on any failure
get_account_id(reply) == IF reply = "error" THEN "" ELSE reply

\* account discovery when account-id is not configured
PrepareAccount ==
    /\ UNCHANGED <<fnVars, pdfObs>>
    /\ pc = "p_account"
    /\ \/ /\ account_id = ""
          /\ \E reply \in Replies(api_token, {"acct"}) :
                /\ account_id' = get_account_id(reply)
                /\ dashboard_generator_on' =
                      IF get_account_id(reply) = "" THEN FALSE ELSE dashboard_generator_on
                /\ checks' = IF reply = "error" THEN checks ELSE checks \cup {"account"}
          /\ gql' = gql \cup {"accounts"}
       \/ /\ account_id # ""
          /\ checks' = checks \cup {"account"}
          /\ UNCHANGED <<account_id, dashboard_generator_on, gql>>
    /\ pc' = "p_api_check"
    /\ UNCHANGED <<handler, raised, clockVars, dropped, bufVars, tsVars, send_interval,
                   static_report, api_token, listener, sleeps, sessionVars, reqVars,
                   dashboard_url, dashboard_guid, linkObs>>

\* an authorization check that always succeeds
api_check_Always(reply) == TRUE

\* DashboardManager.api_check: True iff the identity query answers with a user name
api_check(reply) == reply # "error"

PrepareApiCheck ==
    /\ UNCHANGED <<fnVars, pdfObs>>
    /\ pc = "p_api_check"
    /\ \E reply \in Replies(api_token, {"user"}) :
          /\ dashboard_generator_on' =
                IF api_check(reply) THEN dashboard_generator_on ELSE FALSE
          /\ checks' = IF reply = "error" THEN checks ELSE checks \cup {"api"}
    /\ gql' = gql \cup {"identity"}
    /\ pc' = "p_template"
    /\ UNCHANGED <<handler, raised, clockVars, dropped, bufVars, tsVars, cfgVars, listener,
                   sleeps, sessionVars, reqVars, dashboard_url, dashboard_guid, linkObs>>

\* the template file is read; then dashboard_link runs if the generator is on
PrepareTemplate ==
    /\ UNCHANGED <<fnVars, pdfObs>>
    /\ pc = "p_template"
    /\ \E readable \in BOOLEAN :
          /\ dashboard_generator_on' = IF readable THEN dashboard_generator_on ELSE FALSE
          /\ checks' = IF readable THEN checks \cup {"template"} ELSE checks
          /\ pc' = IF readable /\ dashboard_generator_on THEN "dl_search" ELSE "p_token"
    /\ UNCHANGED <<handler, raised, clockVars, dropped, bufVars, tsVars, cfgVars, listener, gql,
                   sleeps, sessionVars, reqVars, dashboard_url, dashboard_guid, linkObs>>

\* token_processor, Session() and client_init
PrepareToken ==
    /\ UNCHANGED <<fnVars, pdfObs, checks>>
    /\ pc = "p_token"
    /\ \E key \in TokenResults :
          \/ /\ ~Truthy(key)
             /\ Raise("TaurusConfigError", "aborted")
             /\ UNCHANGED <<metric_client, timeout, token>>
          \/ /\ Truthy(key)
             /\ token' = key
             /\ metric_client' = "open"
             /\ timeout' = SessionTimeout
             /\ pc' = "p_ping"
             /\ UNCHANGED <<handler, raised>>
    /\ UNCHANGED <<clockVars, dropped, bufVars, tsVars, cfgVars, listener, gql, sleeps, closes,
                   ping_status, reqVars, dashState, linkObs>>

\* a probe that accepts every status
ping_Lenient(status) == None

\* Session.ping: a status of 300 or more raises
ping(status) == IF status >= PingStatusLimit THEN "Exception" ELSE None

\* the probe, then the registration as a listener of the aggregator
PreparePing ==
    /\ UNCHANGED <<fnVars, pdfObs>>
    /\ pc = "p_ping"
    /\ \E status \in PingStatuses :
          /\ ping_status' = status
          /\ \/ /\ ping(status) # None
                /\ Raise(ping(status), "aborted")
                /\ UNCHANGED <<listener, gql, sleeps, linkObs, checks>>
             \/ /\ ping(status) = None
                /\ listener' = TRUE
                /\ Return("prepared")
                /\ ResetLink
                /\ gql' = {}
                /\ sleeps' = <<>>
                /\ checks' = {}
    /\ UNCHANGED <<clockVars, dropped, bufVars, tsVars, cfgVars, metric_client, timeout, closes,
                   token, reqVars, dashState>>

\* NewRelicUploader.startup
Startup ==
    /\ UNCHANGED <<fnVars, pdfObs, checks>>
    /\ pc = "prepared"
    /\ pc' = "running"
    /\ UNCHANGED <<handler, raised, clockVars, dropped, bufVars, tsVars, cfgVars, listener, gql,
                   sleeps, sessionVars, reqVars, dashState, linkObs>>

(***************************************************************************)
(* DatapointSerializerNF.get_kpi_body: the timestamp bounds it leaves      *)
(***************************************************************************)
\* a timestamp bound that an empty buffer resets
FirstTsAfter_Reset(f, data_buffer) ==
    IF data_buffer = <<>> THEN SysMaxsize ELSE Min(f, data_buffer[1].ts)

FirstTsAfter(f, data_buffer) ==
    IF data_buffer = <<>> THEN f ELSE Min(f, data_buffer[1].ts)

LastTsAfter(l, data_buffer) ==
    IF data_buffer = <<>> THEN l ELSE Max(l, data_buffer[Len(data_buffer)].ts)

(***************************************************************************)
(* NewRelicUploader.aggregated_second                                      *)
(***************************************************************************)
\* a sample put at the head of the buffer
BufferAfterSample_Prepend(buffer, window) == <<window>> \o buffer

BufferAfterSample(buffer, window) == Append(buffer, window)

aggregated_second ==
    /\ UNCHANGED <<fnVars, pdfObs, checks>>
    /\ pc = "running"
    /\ listener
    /\ nextId < MaxSamples
    /\ \E ts \in 1..MaxTs :
          kpi_buffer' = BufferAfterSample(kpi_buffer, [id |-> nextId + 1, ts |-> ts])
    /\ nextId' = nextId + 1
    /\ UNCHANGED <<pc, handler, raised, clockVars, dropped, tsVars, cfgVars, listener, gql,
                   sleeps, sessionVars, reqVars, dashState, linkObs>>

\* the clock of the host advances between two calls of the handlers
Advance ==
    /\ UNCHANGED <<fnVars, pdfObs, checks>>
    /\ pc = "running"
    /\ now < MaxTime
    /\ now' = now + 1
    /\ UNCHANGED <<pc, handler, raised, last_dispatch, last_flush, dropped, bufVars, tsVars,
                   cfgVars, listener, gql, sleeps, sessionVars, reqVars, dashState,
                   linkObs>>

(***************************************************************************)
(* The decorated __send_data: send_with_retry._impl calls the method, the  *)
(* method serializes the batch and calls Session.send_kpi_data, which      *)
(* calls Session._request.                                                 *)
(***************************************************************************)
\* one call of the wrapped method up to the entry of Session._request
CallSendData(batch) ==
    /\ first_ts' = FirstTsAfter(first_ts, batch)
    /\ last_ts' = LastTsAfter(last_ts, batch)
    /\ retry_limit' = SessionRetryLimit
    /\ attempts' = 0
    /\ allNetwork' = TRUE
    /\ req_result' = None
    /\ pc' = "rq_send"

\* a retry test that gives up one attempt early
ShouldRetry_OneShort(retry_flag, budget) == retry_flag /\ budget > 1

\* Session._request: "if retry and retry_limit" (retry is never passed: True)
ShouldRetry(retry_flag, budget) == retry_flag /\ budget # 0

\* Session._request: one pass of the while loop, one send_batch call
_request ==
    /\ UNCHANGED <<fnVars, pdfObs, checks>>
    /\ pc = "rq_send"
    /\ attempts' = attempts + 1
    /\ \E outcome \in {"ok"} \cup TransportErrors :
          \/ /\ outcome = "ok"
             /\ req_result' = "returned"
             /\ flushAllNetwork' = FALSE
             /\ pc' = "sr_after"
             /\ UNCHANGED <<allNetwork, retry_limit>>
          \/ /\ outcome # "ok"
             /\ allNetwork' = (allNetwork /\ IsNetworkError(outcome))
             /\ flushAllNetwork' = (flushAllNetwork /\ IsNetworkError(outcome))
             /\ IF ShouldRetry(TRUE, retry_limit)
                   THEN /\ retry_limit' = retry_limit - 1
                        /\ pc' = "rq_send"
                        /\ UNCHANGED req_result
                   ELSE /\ req_result' = outcome
                        /\ pc' = "sr_after"
                        /\ UNCHANGED retry_limit
    /\ UNCHANGED <<handler, raised, clockVars, dropped, bufVars, tsVars, cfgVars, listener, gql,
                   sleeps, sessionVars, data, round, dashState, linkObs>>

\* a first except clause that catches every exception
CaughtFirst_Any(e) == TRUE

\* send_with_retry: "except (IOError, TaurusNetworkError)" around the first call
CaughtFirst(e) == IsInstance(e, {"IOError", "TaurusNetworkError"})

\* a second except clause that names IOError alone
CaughtSecond_IOErrorOnly(e) == IsInstance(e, {"IOError"})

\* send_with_retry: "except NETWORK_PROBLEMS" around the second call
CaughtSecond(e) == IsInstance(e, NETWORK_PROBLEMS)

\* a flush that leaves the buffer as it was
BufferAfterFlush_Kept(buffer) == buffer

\* the statement after the flush: check and post_process both clear the buffer
BufferAfterFlush(buffer) == <<>>

\* the decorated call returned to check or post_process
FlushReturns ==
    /\ kpi_buffer' = BufferAfterFlush(kpi_buffer)
    /\ IF handler = "check"
          THEN Return("running")
          ELSE /\ pc' = "pp_link"
               /\ UNCHANGED <<handler, raised>>

\* an exception leaves the decorated call, and with it check or post_process
FlushRaises(e) ==
    /\ Raise(e, IF handler = "check" THEN "running" ELSE "done")
    /\ UNCHANGED kpi_buffer

\* send_with_retry._impl after Session._request returned or raised
send_with_retry ==
    /\ UNCHANGED <<fnVars, pdfObs, checks>>
    /\ pc = "sr_after"
    /\ \/ /\ req_result = "returned"
          /\ FlushReturns
          /\ ResetRequest
          /\ sleeps' = <<>>
          /\ UNCHANGED <<tsVars, dropped>>
       \/ /\ req_result # "returned"
          /\ round = 1
          /\ CaughtFirst(req_result)
          /\ sleeps' = Append(sleeps, timeout)
          /\ round' = 2
          /\ CallSendData(data)
          /\ UNCHANGED <<handler, raised, kpi_buffer, data, flushAllNetwork, dropped>>
       \/ /\ req_result # "returned"
          /\ round = 1
          /\ ~CaughtFirst(req_result)
          /\ FlushRaises(req_result)
          /\ ResetRequest
          /\ sleeps' = <<>>
          /\ UNCHANGED <<tsVars, dropped>>
       \/ /\ req_result # "returned"
          /\ round = 2
          /\ CaughtSecond(req_result)
          /\ FlushReturns
          /\ ResetRequest
          /\ dropped' = TRUE
          /\ sleeps' = <<>>
          /\ UNCHANGED tsVars
       \/ /\ req_result # "returned"
          /\ round = 2
          /\ ~CaughtSecond(req_result)
          /\ FlushRaises(req_result)
          /\ ResetRequest
          /\ sleeps' = <<>>
          /\ UNCHANGED <<tsVars, dropped>>
    /\ UNCHANGED <<clockVars, nextId, cfgVars, listener, gql, sessionVars, dashState,
                   linkObs>>

(***************************************************************************)
(* NewRelicUploader.check                                                  *)
(***************************************************************************)
\* an interval test that also passes when exactly the interval has elapsed
IntervalElapsed_Inclusive(dispatch, t, interval) == dispatch <= t - interval

\* "self.last_dispatch < (time.time() - self.send_interval)"
IntervalElapsed(dispatch, t, interval) == dispatch < t - interval

check ==
    /\ UNCHANGED <<fnVars, pdfObs, checks>>
    /\ pc = "running"
    /\ IF IntervalElapsed(last_dispatch, now, send_interval)
          THEN /\ last_dispatch' = now
               /\ IF Len(kpi_buffer) # 0
                     THEN /\ handler' = "check"
                          /\ raised' = None
                          /\ data' = kpi_buffer
                          /\ last_flush' = now
                          /\ round' = 1
                          /\ flushAllNetwork' = TRUE
                          /\ CallSendData(kpi_buffer)
                     ELSE /\ Return("running")
                          /\ UNCHANGED <<tsVars, reqVars, last_flush>>
          ELSE /\ Return("running")
               /\ UNCHANGED <<last_dispatch, tsVars, reqVars, last_flush>>
    /\ UNCHANGED <<now, dropped, bufVars, cfgVars, listener, gql, sleeps, sessionVars,
                   dashState, linkObs>>

(***************************************************************************)
(* NewRelicUploader.post_process                                           *)
(***************************************************************************)
\* the final flush: __send_data(self.kpi_buffer, False, True)
post_process ==
    /\ UNCHANGED <<fnVars, pdfObs, checks>>
    /\ pc = "running"
    /\ handler' = "post_process"
    /\ raised' = None
    /\ data' = kpi_buffer
    /\ round' = 1
    /\ flushAllNetwork' = TRUE
    /\ CallSendData(kpi_buffer)
    /\ UNCHANGED <<clockVars, dropped, bufVars, cfgVars, listener, gql, sleeps, sessionVars,
                   dashState, linkObs>>

\* "if self.dashboard_generator_on: self.dashboard_url = dashboard_link(project)"
PostProcessLink ==
    /\ UNCHANGED <<fnVars, pdfObs, checks>>
    /\ pc = "pp_link"
    /\ pc' = IF dashboard_generator_on THEN "dl_search" ELSE "pp_pdf"
    /\ UNCHANGED <<handler, raised, clockVars, dropped, bufVars, tsVars, cfgVars, listener, gql,
                   sleeps, sessionVars, reqVars, dashState, linkObs>>

\* Session.client_close
client_close ==
    /\ metric_client' = "closed"
    /\ closes' = closes + 1

\* replies to the snapshot mutation: the call raises, the response has no
\* data, the link is null, or a link
PdfReplies == {"raise", "malformed", "null", "link"}

\* create_pdf: "pdf_link = data['data']['dashboardCreateSnapshotUrl']"
PdfLink(reply) == IF reply = "link" THEN "link" ELSE None

\* create_pdf: "while pdf_link is None and retry != 0: retry -= 1"
RECURSIVE PdfLinkAfterRetries(_, _)
PdfLinkAfterRetries(pdf_link, budget) ==
    IF pdf_link = None /\ budget # 0
       THEN PdfLinkAfterRetries(pdf_link, budget - 1)
       ELSE pdf_link

\* DashboardManager.create_pdf: the settle delay, one snapshot mutation, the
\* loop, then the download of the link and the write of the report file
create_pdf ==
    /\ sleeps' = Append(sleeps, PdfSettleDelay)
    /\ gql' = gql \cup {"snapshot"}
    /\ pdf_mutations' = pdf_mutations + 1
    /\ \E reply \in PdfReplies, fetched \in BOOLEAN :
          /\ pdf_reply' = reply
          /\ report_saved' =
                /\ reply \notin {"raise", "malformed"}
                /\ PdfLinkAfterRetries(PdfLink(reply), DashboardRetryLimit) # None
                /\ fetched

\* "if self.static_report: create_pdf(...)", then the session is closed
PostProcessPdf ==
    /\ UNCHANGED <<fnVars, checks>>
    /\ pc = "pp_pdf"
    /\ IF Truthy(static_report)
          THEN create_pdf
          ELSE UNCHANGED <<sleeps, gql, pdfObs>>
    /\ client_close
    /\ Return("done")
    /\ UNCHANGED <<clockVars, dropped, bufVars, tsVars, cfgVars, listener, timeout, token,
                   ping_status, reqVars, dashState, linkObs>>

(***************************************************************************)
(* DashboardManager.dashboard_link and dashboard_create                    *)
(***************************************************************************)
\* the entities of a search response that holds n of them
Entities(kind, n) ==
    [i \in 1..n |-> [guid |-> Guid(kind, i), permalink |-> Permalink(kind, i)]]

\* replies to an entity search: the call raises, the response has no data,
\* or it holds count = n and n entities
SearchReplies ==
    {[kind |-> "raise", n |-> 0], [kind |-> "malformed", n |-> 0]}
        \cup {[kind |-> "entities", n |-> n] : n \in 0..MaxCount}

\* Python's list[i]: positions count from 0, a position past the end raises
\* IndexError
InRange(list, i) == i < Len(list)
PyIndex(list, i) == list[i + 1]

\* dashboard_link: "...['entities'][1]" of the search by name
ExistingIndex == 1
\* dashboard_create: "...['entities'][0]" of the search by parent id
CreatedIndex == 0

\* dashboard_link hands its result to prepare or post_process
LinkReturns(value) ==
    /\ dashboard_url' = value
    /\ dl_ret' = value
    /\ pc' = IF handler = "prepare" THEN "p_token" ELSE "pp_pdf"
    /\ UNCHANGED <<handler, raised>>

\* an exception leaves dashboard_link, and with it prepare or post_process
LinkRaises(e) ==
    /\ Raise(e, IF handler = "prepare" THEN "aborted" ELSE "done")
    /\ dl_ret' = <<"raised">>
    /\ UNCHANGED dashboard_url

\* "if count > 0" of dashboard_link
DashboardExists(count) == count > 0

\* dashboard_link: the search by name and what follows from its response
dashboard_link ==
    /\ UNCHANGED <<fnVars, pdfObs, checks>>
    /\ pc = "dl_search"
    /\ gql' = gql \cup {"search"}
    /\ sleeps' = <<>>
    /\ mutations' = 0
    /\ polls' = 0
    /\ last_poll' = None
    /\ \E reply \in SearchReplies :
          \/ /\ reply.kind = "raise"
             /\ LinkRaises("ConnectionError")
             /\ dl_count' = -1
             /\ creates' = 0
             /\ UNCHANGED dashboard_guid
          \/ /\ reply.kind = "malformed"
             /\ LinkReturns(NoneUrl)
             /\ dl_count' = -1
             /\ creates' = 0
             /\ UNCHANGED dashboard_guid
          \/ /\ reply.kind = "entities"
             /\ DashboardExists(reply.n)
             /\ dl_count' = reply.n
             /\ creates' = 0
             /\ LET entities == Entities("name", reply.n)
                IN  IF ~InRange(entities, ExistingIndex)
                       THEN /\ LinkReturns(NoneUrl)
                            /\ UNCHANGED dashboard_guid
                       ELSE /\ dashboard_guid' = PyIndex(entities, ExistingIndex).guid
                            /\ LinkReturns(PyIndex(entities, ExistingIndex).permalink)
          \/ /\ reply.kind = "entities"
             /\ ~DashboardExists(reply.n)
             /\ dl_count' = reply.n
             /\ creates' = 1
             /\ pc' = "dc_mutation"
             /\ dl_ret' = <<"pending">>
             /\ UNCHANGED <<handler, raised, dashboard_url, dashboard_guid>>
    /\ UNCHANGED <<clockVars, dropped, bufVars, tsVars, cfgVars, listener, sessionVars, reqVars,
                   dashboard_generator_on, retry>>

\* dashboard_create: the create mutation
dashboard_create ==
    /\ UNCHANGED <<fnVars, pdfObs, checks>>
    /\ pc = "dc_mutation"
    /\ gql' = gql \cup {"create"}
    /\ mutations' = mutations + 1
    /\ \E reply \in {"raise", "malformed", "created"} :
          \/ /\ reply # "created"
             /\ LinkReturns(FallbackUrl)
             /\ UNCHANGED <<sleeps, retry>>
          \/ /\ reply = "created"
             /\ sleeps' = Append(sleeps, CreateSettleDelay)
             /\ retry' = DashboardRetryLimit
             /\ pc' = "dc_poll"
             /\ UNCHANGED <<handler, raised, dashboard_url, dl_ret>>
    /\ UNCHANGED <<clockVars, dropped, bufVars, tsVars, cfgVars, listener, sessionVars, reqVars,
                   dashboard_generator_on, dashboard_guid, dl_count, creates, polls,
                   last_poll>>

\* a polling test that gives up one poll early
PollShouldRetry_OneShort(budget) == budget > 1

\* "if retry > 0" of the polling loop
PollShouldRetry(budget) == budget > 0

\* dashboard_create: one pass of the polling loop, one search by parent id;
\* "interrupt" is a BaseException that is no Exception
dashboard_create_poll ==
    /\ UNCHANGED <<fnVars, pdfObs, checks>>
    /\ pc = "dc_poll"
    /\ gql' = gql \cup {"poll"}
    /\ polls' = polls + 1
    /\ \E reply \in SearchReplies \cup {[kind |-> "interrupt", n |-> 0]} :
          LET entities == Entities("parent", reply.n)
              ready == reply.kind = "entities" /\ InRange(entities, CreatedIndex)
          IN  \/ /\ ready
                 /\ last_poll' = "ready"
                 /\ dashboard_guid' = PyIndex(entities, CreatedIndex).guid
                 /\ LinkReturns(PyIndex(entities, CreatedIndex).permalink)
                 /\ UNCHANGED <<sleeps, retry>>
              \/ /\ reply.kind # "interrupt"
                 /\ ~ready
                 /\ PollShouldRetry(retry)
                 /\ last_poll' = "notready"
                 /\ retry' = retry - 1
                 /\ sleeps' = Append(sleeps, PollDelay)
                 /\ UNCHANGED <<pc, handler, raised, dashboard_url, dl_ret, dashboard_guid>>
              \/ /\ reply.kind # "interrupt"
                 /\ ~ready
                 /\ ~PollShouldRetry(retry)
                 /\ last_poll' = "notready"
                 /\ LinkReturns(FallbackUrl)
                 /\ UNCHANGED <<sleeps, retry, dashboard_guid>>
              \/ /\ reply.kind = "interrupt"
                 /\ last_poll' = "interrupt"
                 /\ LinkReturns(FallbackUrl)
                 /\ UNCHANGED <<sleeps, retry, dashboard_guid>>
    /\ UNCHANGED <<clockVars, dropped, bufVars, tsVars, cfgVars, listener, sessionVars, reqVars,
                   dashboard_generator_on, dl_count, creates, mutations>>

Next ==
    \/ Prepare
    \/ PrepareAccount
    \/ PrepareApiCheck
    \/ PrepareTemplate
    \/ PrepareToken
    \/ PreparePing
    \/ Startup
    \/ aggregated_second
    \/ Advance
    \/ check
    \/ _request
    \/ send_with_retry
    \/ post_process
    \/ PostProcessLink
    \/ PostProcessPdf
    \/ dashboard_link
    \/ dashboard_create
    \/ dashboard_create_poll

Spec == Init /\ [][Next]_vars

(***************************************************************************)
(* Credential resolution: token_processor and api_token_processor, called  *)
(* on their own with every combination of their three sources.  A Python   *)
(* string is the tuple <<"str", characters>>.                              *)
(***************************************************************************)
PyNone == <<"None">>
Str(chars) == <<"str", chars>>

\* os.environ[...] of a variable that is not set raises KeyError
Unset == <<"unset">>
\* open() of a path that is missing or not readable raises
Unreadable == <<"unreadable">>

Whitespace == {" ", "\n"}

RECURSIVE lstrip(_)
lstrip(chars) ==
    IF chars # <<>> /\ Head(chars) \in Whitespace THEN lstrip(Tail(chars)) ELSE chars

RECURSIVE rstrip(_)
rstrip(chars) ==
    IF chars # <<>> /\ chars[Len(chars)] \in Whitespace
       THEN rstrip(SubSeq(chars, 1, Len(chars) - 1))
       ELSE chars

\* str.strip()
strip(chars) == rstrip(lstrip(chars))

\* settings.get("token", ""): absent or a key
ConfigValues == {<<>>, <<"c">>}
\* the environment variable: not set, set to the empty string, set to a key
EnvValues == {Unset, Str(<<>>), Str(<<"e">>)}
\* settings.get("token-file", ""): absent or a path
FilePaths == {<<>>, <<"p">>}
\* the file at that path
FileContents ==
    {Unreadable} \cup {Str(c) : c \in {<<>>, <<" ">>, <<"f">>, <<" ", "f", "\n">>}}

token_processor(config, env, path, file) ==
    IF config # <<>> THEN Str(config)
    ELSE IF env # Unset THEN env
    ELSE IF path # <<>> /\ file # Unreadable THEN Str(strip(file[2]))
    ELSE PyNone

api_token_processor(config, env, path, file) ==
    IF config # <<>> THEN Str(config)
    ELSE IF env # Unset THEN env
    ELSE IF path # <<>> /\ file # Unreadable THEN Str(strip(file[2]))
    ELSE PyNone

CredentialCalls ==
    [fn : {"token_processor", "api_token_processor"}, config : ConfigValues,
     env : EnvValues, path : FilePaths, file : FileContents]

InitCredentials ==
    /\ InitUploader
    /\ call \in CredentialCalls
    /\ result = Pending

CallTokenProcessor ==
    /\ call.fn = "token_processor"
    /\ result = Pending
    /\ result' = token_processor(call.config, call.env, call.path, call.file)
    /\ UNCHANGED <<uploaderVars, call>>

CallApiTokenProcessor ==
    /\ call.fn = "api_token_processor"
    /\ result = Pending
    /\ result' = api_token_processor(call.config, call.env, call.path, call.file)
    /\ UNCHANGED <<uploaderVars, call>>

NextCredentials ==
    \/ CallTokenProcessor
    \/ CallApiTokenProcessor

SpecCredentials == InitCredentials /\ [][NextCredentials]_vars

(***************************************************************************)
(* DatapointSerializerNF.get_kpi_body, called on its own.  A number that   *)
(* may be a fraction (a duration in seconds, a scaled value) is the pair   *)
(* <<numerator, denominator>>; a metric name is a tuple, so that the name  *)
(* of a percentile record carries its key.                                 *)
(***************************************************************************)
\* DatapointSerializerNF.__init__: self.multi = 1000
DefaultMulti == 1000
\* "report-times-multiplier"
Multipliers == {1, 2, DefaultMulti}

Whole(n) == <<n, 1>>
Times(multi, q) == <<multi * q[1], q[2]>>
SameNumber(a, b) == a[1] * b[2] = b[1] * a[2]

\* a conversion to int that rounds up
PyInt_RoundUp(q) == <<(q[1] + q[2] - 1) \div q[2], 1>>

\* Python's int() of a non-negative float: the fraction is cut off
PyInt(q) == <<q[1] \div q[2], 1>>

\* the keys of a dict, in the order it iterates them
RECURSIVE Keys(_)
Keys(S) ==
    IF S = {} THEN <<>>
    ELSE LET k == CHOOSE x \in S : TRUE IN <<k>> \o Keys(S \ {k})

PercentileKeys == {"0.0", "50.0", "100.0"}
Rank(p) == CASE p = "0.0" -> 0 [] p = "50.0" -> 1 [] OTHER -> 2
Raw(n) == <<n, RawDen>>

\* a KPISet with the percentiles S, durations that start at r / RawDen
\* seconds, and the response codes of codes
KPISetOf(S, r, codes) ==
    [perc |-> [p \in S |-> Raw(r + Rank(p))],
     avg_rt |-> Raw(r), avg_lt |-> Raw(r + 1), avg_ct |-> Raw(r + 2),
     throughput |-> r + 1, concurrency |-> 1, fail |-> r,
     rc |-> [c \in codes |-> r + 1]]

KPISets ==
    {KPISetOf(S, r, codes) :
        S \in SUBSET PercentileKeys, r \in 0..MaxRaw, codes \in {{}, {"200", "500"}}}

\* DataPoints: the labels of a window share one KPISet
DataPoints ==
    {[ts |-> ts, current |-> [l \in cur |-> k], cumulative |-> [l \in cum |-> k]] :
        ts \in 1..MaxTs, cur \in {{}, {""}, {"", "a"}}, cum \in {{}, {""}}, k \in KPISets}

LaterDataPoints ==
    {[ts |-> ts, current |-> [l \in {""} |-> KPISetOf({"0.0"}, MaxRaw, {})],
      cumulative |-> [l \in {""} |-> KPISetOf({"0.0"}, MaxRaw, {})]] : ts \in 1..MaxTs}

\* buffers of at most two windows, of different timestamps, in either order
DataBuffers ==
    {<<>>} \cup {<<w>> : w \in DataPoints}
        \cup {b \in DataPoints \X LaterDataPoints : b[1].ts # b[2].ts}

\* "label or 'OVERALL'"
LabelTag(label) == IF label = "" THEN "OVERALL" ELSE label

GaugeMetric(name, value, tags, end_time_ms) ==
    [name |-> name, value |-> value, tags |-> tags, end_time_ms |-> end_time_ms]

convert_current_data(item, timestamp, label, multi) ==
    LET tmin == IF "0.0" \in DOMAIN item.perc
                   THEN PyInt(Times(multi, item.perc["0.0"])) ELSE Whole(0)
        tmax == IF "100.0" \in DOMAIN item.perc
                   THEN PyInt(Times(multi, item.perc["100.0"])) ELSE Whole(0)
        tavg == Times(multi, item.avg_rt)
        tlat == Times(multi, item.avg_lt)
        tconn == Times(multi, item.avg_ct)
        nrtags == [label |-> label, timestamp |-> timestamp]
        percentiles == Keys(DOMAIN item.perc)
        rcodes == Keys(DOMAIN item.rc)
    IN  << GaugeMetric(<<"bztRPS">>, Whole(item.throughput), nrtags, timestamp),
           GaugeMetric(<<"bztThreads">>, Whole(item.concurrency), nrtags, timestamp),
           GaugeMetric(<<"bztFailures">>, Whole(item.fail), nrtags, timestamp),
           GaugeMetric(<<"bztmin">>, tmin, nrtags, timestamp),
           GaugeMetric(<<"bztmax">>, tmax, nrtags, timestamp),
           GaugeMetric(<<"bztavg">>, tavg, nrtags, timestamp),
           GaugeMetric(<<"bztlat">>, tlat, nrtags, timestamp),
           GaugeMetric(<<"bztconn">>, tconn, nrtags, timestamp) >>
        \o [i \in 1..Len(percentiles) |->
               GaugeMetric(<<"bztp", percentiles[i]>>,
                           PyInt(Times(multi, item.perc[percentiles[i]])),
                           nrtags, timestamp)]
        \o [i \in 1..Len(rcodes) |->
               GaugeMetric(<<"bztcode">>, Whole(item.rc[rcodes[i]]),
                           [label |-> label, timestamp |-> timestamp, rc |-> rcodes[i]],
                           timestamp)]

convert_cumulative_data(item, timestamp, label, multi) ==
    LET nrtags == [label |-> label, timestamp |-> timestamp]
        percentiles == Keys(DOMAIN item.perc)
    IN  [i \in 1..Len(percentiles) |->
            GaugeMetric(<<"bztpc", percentiles[i]>>,
                        PyInt(Times(multi, item.perc[percentiles[i]])),
                        nrtags, timestamp)]

\* the loop over the labels of the current map of one window
RECURSIVE CurrentMetrics(_, _, _)
CurrentMetrics(dpoint, labels, multi) ==
    IF labels = <<>> THEN <<>>
    ELSE convert_current_data(dpoint.current[Head(labels)], dpoint.ts * multi,
                              LabelTag(Head(labels)), multi)
            \o CurrentMetrics(dpoint, Tail(labels), multi)

\* the loop over the labels of the cumulative map of one window
RECURSIVE CumulativeMetrics(_, _, _)
CumulativeMetrics(dpoint, labels, multi) ==
    IF labels = <<>> THEN <<>>
    ELSE convert_cumulative_data(dpoint.cumulative[Head(labels)], dpoint.ts * multi,
                                 LabelTag(Head(labels)), multi)
            \o CumulativeMetrics(dpoint, Tail(labels), multi)

\* "for dpoint in data_buffer"
RECURSIVE BufferMetrics(_, _)
BufferMetrics(data_buffer, multi) ==
    IF data_buffer = <<>> THEN <<>>
    ELSE CurrentMetrics(Head(data_buffer), Keys(DOMAIN Head(data_buffer).current), multi)
            \o CumulativeMetrics(Head(data_buffer),
                                 Keys(DOMAIN Head(data_buffer).cumulative), multi)
            \o BufferMetrics(Tail(data_buffer), multi)

\* the record list, and the bounds get_kpi_body leaves in its owner
get_kpi_body(data_buffer, multi, owner_first_ts, owner_last_ts) ==
    <<"returned", BufferMetrics(data_buffer, multi),
      FirstTsAfter(owner_first_ts, data_buffer), LastTsAfter(owner_last_ts, data_buffer)>>

\* the bounds of the owner at the call: a fresh uploader, or one that flushed
OwnerBounds == {<<SysMaxsize, 0>>, <<1, MaxTs>>}

SerializerCalls ==
    {[fn |-> "get_kpi_body", data_buffer |-> b, multi |-> m,
      first_ts |-> o[1], last_ts |-> o[2]] :
        b \in DataBuffers, m \in Multipliers, o \in OwnerBounds}

InitSerializer ==
    /\ InitUploader
    /\ call \in SerializerCalls
    /\ result = Pending

CallGetKpiBody ==
    /\ call.fn = "get_kpi_body"
    /\ result = Pending
    /\ result' = get_kpi_body(call.data_buffer, call.multi, call.first_ts, call.last_ts)
    /\ UNCHANGED <<uploaderVars, call>>

NextSerializer == CallGetKpiBody

SpecSerializer == InitSerializer /\ [][NextSerializer]_vars

(***************************************************************************)
(* Properties                                                              *)
(***************************************************************************)
InFlush == pc \in {"rq_send", "sr_after"}

\* C1: a batch-send (Session._request) whose every attempt fails with a
\* transient-network error calls the transport exactly retry_limit + 1 times
\* (5 retries after the first attempt) and then raises that error to its caller;
\* while it still loops it has made at most retry_limit + 1 calls.
C1_NetworkFailureRetriesBudget ==
    /\ (pc = "sr_after" /\ req_result # "returned" /\ allNetwork)
          => /\ attempts = SessionRetryLimit + 1
             /\ IsNetworkError(req_result)
    /\ (pc = "rq_send" /\ allNetwork) => attempts <= SessionRetryLimit

\* a batch-send that failed on every attempt with network errors has ended
C1_Witness ==
    /\ pc = "sr_after"
    /\ allNetwork
    /\ req_result = "ReadTimeout"
    /\ attempts = SessionRetryLimit + 1

\* C2: a batch-send attempt that fails with an error outside the
\* transient-network category is propagated at once: the batch-send has ended
\* with that error after one transport call and with its budget untouched.
C2_NonNetworkPropagatesAtOnce ==
    (InFlush /\ ~allNetwork /\ attempts = 1)
        => /\ pc = "sr_after"
           /\ ~IsNetworkError(req_result)
           /\ retry_limit = SessionRetryLimit

\* C3: a flush whose every transport call failed with a transient-network
\* error does not raise: after the first round it goes on to the retry, after
\* the retry the call returns normally with the buffer empty; and once a batch
\* was skipped, a tick that passes the interval gate with a non-empty buffer
\* still sends that buffer.
C3_NetworkFailureDropsBatch ==
    [][ /\ (pc = "sr_after" /\ flushAllNetwork /\ round = 1)
              => (pc' = "rq_send" /\ round' = 2 /\ raised' = None)
        /\ (pc = "sr_after" /\ flushAllNetwork /\ round = 2)
              => /\ raised' = None
                 /\ kpi_buffer' = <<>>
                 /\ pc' = (IF handler = "check" THEN "running" ELSE "pp_link")
        /\ (pc = "running" /\ dropped /\ last_dispatch' # last_dispatch
               /\ kpi_buffer # <<>>)
              => (pc' = "rq_send" /\ data' = kpi_buffer) ]_vars

\* after a skipped batch a later window is being sent by a tick
C3_Witness ==
    /\ dropped
    /\ handler = "check"
    /\ pc = "rq_send"
    /\ data # <<>>

\* C4: during the run aggregated_second only appends the window to the end of
\* the buffer: it makes no transport call and leaves last_dispatch and the
\* timestamp bounds as they were; a transport call is made only inside check
\* (or the final flush of post_process).
C4_SampleOnlyAppends ==
    [][ /\ (nextId' # nextId)
              => /\ Len(kpi_buffer') = Len(kpi_buffer) + 1
                 /\ SubSeq(kpi_buffer', 1, Len(kpi_buffer)) = kpi_buffer
                 /\ kpi_buffer'[Len(kpi_buffer')].id = nextId'
                 /\ UNCHANGED <<pc, attempts, last_dispatch, first_ts, last_ts,
                                data, last_flush>>
        /\ (attempts' = attempts + 1) => handler' \in {"check", "post_process"} ]_vars

\* two windows were buffered during the run and nothing was dispatched
C4_Witness ==
    /\ pc = "running"
    /\ Len(kpi_buffer) = 2
    /\ last_dispatch = 0
    /\ attempts = 0

\* a tick that sends: check passes the gate and starts a flush
CheckSends == check /\ pc' = "rq_send"

\* C5 as stated: a tick with a non-empty buffer more than send-interval after
\* the previous flush of the buffer sends it, and a tick less than
\* send-interval after the previous flush sends nothing.
C5_FlushDueSincePreviousFlush ==
    (pc = "running" /\ last_flush > 0)
        => /\ (kpi_buffer # <<>> /\ now - last_flush > send_interval)
                 => ENABLED CheckSends
           /\ (now - last_flush < send_interval) => ~ENABLED CheckSends

\* C5 (amended): the interval is measured from last_dispatch, the time of the
\* last tick that passed the interval gate, whether or not it had anything to
\* send: a tick with a non-empty buffer more than send-interval after
\* last_dispatch sends the buffer; a tick no more than send-interval after
\* last_dispatch, so also one less than send-interval after the previous
\* flush, sends nothing.
C5_FlushDueSinceLastDispatch ==
    pc = "running"
        => /\ (kpi_buffer # <<>> /\ now - last_dispatch > send_interval)
                 => ENABLED CheckSends
           /\ (now - last_dispatch <= send_interval) => ~ENABLED CheckSends
           /\ (last_flush > 0 /\ now - last_flush < send_interval)
                 => ~ENABLED CheckSends

\* a second flush is due: a batch was flushed, the interval has elapsed since,
\* and a window waits in the buffer
C5_Witness ==
    /\ pc = "running"
    /\ last_flush > 0
    /\ kpi_buffer # <<>>
    /\ now - last_dispatch > send_interval

\* the final flush starts whatever the interval gate says
PostProcessSends == post_process /\ pc' = "rq_send" /\ data' = kpi_buffer

C7_SessionClosedOnce ==
    (pc = "done") => (closes = 1 /\ metric_client = "closed")

LinkFinished == dl_ret \notin {<<"unset">>, <<"pending">>}

\* the permalinks of the dashboards a search by name answered with
ExistingPermalinks(count) == {Permalink("name", i) : i \in 1..count}

\* C8: dashboard_link returns the permalink of an existing matching dashboard,
\* without invoking dashboard_create, for every search response with count > 0
\* (a count of exactly 1 included); for count 0 it invokes dashboard_create
\* exactly once (and issues at most one create mutation).
C8_LookupOrCreate ==
    /\ (LinkFinished /\ dl_count > 0)
          => /\ dl_ret \in ExistingPermalinks(dl_count)
             /\ creates = 0
             /\ mutations = 0
    /\ (dl_count = 0) => (creates = 1 /\ mutations <= 1)

\* C9: after a successful create mutation dashboard_create polls the search by
\* parent id at most retry budget + 1 times (5 retries after the first poll),
\* sleeping 10 seconds after every poll that found nothing; a poll that
\* yields a permalink ends the polling and that permalink is returned; when no
\* poll yields one, the fallback URL is returned, after retry budget + 1 polls
\* unless a poll was interrupted.
C9_PollingBoundedWithFallback ==
    /\ polls <= DashboardRetryLimit + 1
    /\ (pc = "dc_poll")
          => /\ last_poll \in {None, "notready"}
             /\ polls = DashboardRetryLimit - retry
             /\ sleeps = <<CreateSettleDelay>> \o [i \in 1..polls |-> PollDelay]
    /\ (LinkFinished /\ polls > 0)
          => /\ pc # "dc_poll"
             /\ (last_poll = "ready") => dl_ret = Permalink("parent", 1)
             /\ (last_poll # "ready") => dl_ret = FallbackUrl
             /\ (last_poll = "notready") => polls = DashboardRetryLimit + 1

\* the polling used its whole budget and fell back to the generic URL
C9_Witness ==
    /\ LinkFinished
    /\ polls = DashboardRetryLimit + 1
    /\ last_poll = "notready"
    /\ dl_ret = FallbackUrl
    /\ Len(sleeps) = DashboardRetryLimit + 1

\* C10: whatever the backend answers, dashboard_link ends with a permalink or
\* the generic fallback URL, never with an absent value, and no exception
\* leaves it towards prepare or post_process.
C10_LinkNeverFails ==
    /\ LinkFinished
          => (dl_ret = FallbackUrl \/ dl_ret[1] = "permalink")
    /\ dashboard_url # NoneUrl
    /\ raised # "ConnectionError"

\* the requests of the dashboard lookup-or-create
DashboardRequests == {"search", "create", "poll"}

\* C11: when no management token was resolved the dashboard features are off:
\* neither prepare nor post_process issues a dashboard search or a create, the
\* generator stays off and the results URL stays the default; the upload goes
\* on: prepare can still resolve the ingest token, run the probe and register
\* the listener, and check and post_process still flush.
C11_NoApiTokenDisablesDashboardsOnly ==
    (pc # "init" /\ api_token = None)
        => /\ ~dashboard_generator_on
           /\ pc \notin {"dl_search", "dc_mutation", "dc_poll"}
           /\ gql \cap DashboardRequests = {}
           /\ dashboard_url = DefaultDashboardUrl
           /\ (pc = "p_token") => ENABLED (PrepareToken /\ pc' = "p_ping")
           /\ (pc = "p_ping") => ENABLED (PreparePing /\ listener' /\ pc' = "prepared")
           /\ (pc \in {"prepared", "running"}) => (listener /\ metric_client = "open")
           /\ (pc = "running") => ENABLED PostProcessSends
           /\ (pc = "running" /\ kpi_buffer # <<>>
                  /\ IntervalElapsed(last_dispatch, now, send_interval))
                 => ENABLED CheckSends

\* a run without management token flushed its windows and ended normally
C11_Witness ==
    /\ api_token = None
    /\ pc = "done"
    /\ raised = None
    /\ nextId = 2
    /\ last_flush > 0
    /\ kpi_buffer = <<>>
    /\ dashboard_url = DefaultDashboardUrl

\* C12: prepare drives the DashboardManager only if a management token was
\* resolved: with no management token, prepare issues no request of any kind
\* to the GraphQL endpoint.
C12_NoApiTokenNoGraphqlInPrepare ==
    (handler = "prepare" /\ api_token = None) => gql = {}

\* C13: post_process calls create_pdf only if static-report mode is enabled:
\* when the static-report option is absent (its default) or configured as
\* false, no snapshot mutation is issued and create_pdf does not sleep.
C13_PdfOnlyIfStaticReport ==
    (static_report \in {"'false'", "False"})
        => /\ "snapshot" \notin gql
           /\ (pc = "done") => sleeps = <<>>

\* the values the three sources offer, in the order config, environment, file
CredentialOffers ==
    <<call.config,
      IF call.env = Unset THEN <<>> ELSE call.env[2],
      IF call.path = <<>> \/ call.file = Unreadable THEN <<>> ELSE strip(call.file[2])>>

\* the first non-empty of them, or the empty string
FirstNonEmpty(offers) ==
    IF offers[1] # <<>> THEN offers[1]
    ELSE IF offers[2] # <<>> THEN offers[2]
    ELSE offers[3]

\* C14: token_processor and api_token_processor return the first non-empty
\* value in the order configuration value, environment variable, trimmed file
\* contents; a missing or empty source is a miss and the next source is
\* tried; when every source misses the result is absent.
C14_FirstNonEmptySourceWins ==
    (call.fn \in {"token_processor", "api_token_processor"} /\ result # Pending)
        => IF FirstNonEmpty(CredentialOffers) = <<>>
              THEN result \in {PyNone, Str(<<>>)}
              ELSE result = Str(FirstNonEmpty(CredentialOffers))

\* C15: prepare ends successfully, with the uploader registered as a listener
\* of the aggregator, only if the ingest token was resolved and the probe
\* answered with a status below 300; when the ingest token is absent or the
\* probe answers 300 or more, prepare has aborted with an error, no listener
\* is registered and nothing is or will be sent: no handler of the run can be
\* called.
C15_PrepareNeedsTokenAndProbe ==
    /\ (listener \/ pc \in {"prepared", "running"})
          => /\ Truthy(token)
             /\ ping_status \in 1..(PingStatusLimit - 1)
             /\ listener
    /\ (pc = "prepared") => raised = None
    /\ (pc = "p_ping") => Truthy(token)
    /\ (pc # "init" /\ handler # "prepare"
           /\ (~Truthy(token) \/ ping_status >= PingStatusLimit))
          => /\ pc = "aborted"
             /\ raised # None
             /\ ~listener
             /\ attempts = 0 /\ last_flush = 0 /\ nextId = 0
             /\ ~ENABLED (Startup \/ aggregated_second \/ check \/ post_process)

\* the probe was refused with the limit status and prepare aborted
C15_Witness ==
    /\ pc = "aborted"
    /\ Truthy(token)
    /\ ping_status = PingStatusLimit
    /\ raised = "Exception"
    /\ ~listener

\* the batch is serialized: __send_data is entered from check, post_process or
\* the retry of send_with_retry
Serializes == pc # "rq_send" /\ pc' = "rq_send"

\* C16: first_ts never increases and last_ts never decreases, and after every
\* serialization of a non-empty buffer, in whatever order the timestamps of
\* its windows appear, first_ts is at most and last_ts at least the timestamp
\* of every window of that buffer (so, with the monotonicity, of every window
\* flushed so far).
C16_TimestampBoundsCoverFlushed ==
    [][ /\ first_ts' <= first_ts
        /\ last_ts' >= last_ts
        /\ Serializes
              => \A i \in DOMAIN data' :
                    first_ts' <= data'[i].ts /\ last_ts' >= data'[i].ts ]_vars

Returned == call.fn = "get_kpi_body" /\ result # Pending

\* C17: get_kpi_body of an empty buffer returns an empty record list and
\* leaves first_ts and last_ts of its owner as they were.
C17_EmptyBufferSerializesToNothing ==
    (Returned /\ call.data_buffer = <<>>)
        => /\ result[2] = <<>>
           /\ result[3] = call.first_ts
           /\ result[4] = call.last_ts

\* an empty buffer was serialized for an uploader that had flushed before
C17_Witness ==
    /\ Returned
    /\ call.data_buffer = <<>>
    /\ call.first_ts = 1
    /\ call.last_ts = MaxTs

\* the 8 metrics __convert_current_data always emits
FixedMetrics ==
    {"bztRPS", "bztThreads", "bztFailures", "bztmin", "bztmax", "bztavg", "bztlat",
     "bztconn"}

\* the value is exactly the number q
Exactly(value, q) == SameNumber(value, q)

\* the value is the number q with its fraction cut off
Truncated(value, q) ==
    /\ value[2] = 1
    /\ value[1] * q[2] <= q[1]
    /\ q[1] < (value[1] + 1) * q[2]

\* what get_kpi_body returned for the buffer it was called with: per window
\* and label of the current map the 8 fixed metrics, one record per
\* percentile key and one per response code, per label of the cumulative map
\* one record per percentile key, and nothing else; every end-time is the
\* timestamp of the window times the multiplier; the averages are the raw
\* values times the multiplier; the percentile values, and min and max, relate
\* to the raw value times the multiplier as Scaled says
Emitted(Scaled(_, _)) ==
    LET records == result[2]
        multi == call.multi
        OfWindow(w) == {i \in DOMAIN records : records[i].end_time_ms = w.ts * multi}
        Current(w, l) ==
            {i \in OfWindow(w) : /\ records[i].tags.label = LabelTag(l)
                                 /\ records[i].name[1] # "bztpc"}
        Cumulative(w, l) ==
            {i \in OfWindow(w) : /\ records[i].tags.label = LabelTag(l)
                                 /\ records[i].name[1] = "bztpc"}
        Named(I, name) == {i \in I : records[i].name = name}
        ValueOf(I, name) == records[CHOOSE i \in Named(I, name) : TRUE].value
        Bound(item, key) ==
            IF key \in DOMAIN item.perc THEN Times(multi, item.perc[key]) ELSE Whole(0)
    IN  /\ \A i \in DOMAIN records :
              \E j \in DOMAIN call.data_buffer :
                  /\ records[i].end_time_ms = call.data_buffer[j].ts * multi
                  /\ LET w == call.data_buffer[j]
                     IN  \E l \in (IF records[i].name[1] = "bztpc"
                                      THEN DOMAIN w.cumulative ELSE DOMAIN w.current) :
                            records[i].tags.label = LabelTag(l)
        /\ \A j \in DOMAIN call.data_buffer :
              LET w == call.data_buffer[j]
              IN  /\ \A l \in DOMAIN w.current :
                        LET item == w.current[l]
                            I == Current(w, l)
                        IN  /\ Cardinality(I) = 8 + Cardinality(DOMAIN item.perc)
                                                  + Cardinality(DOMAIN item.rc)
                            /\ \A n \in FixedMetrics : Cardinality(Named(I, <<n>>)) = 1
                            /\ \A p \in DOMAIN item.perc :
                                  /\ Cardinality(Named(I, <<"bztp", p>>)) = 1
                                  /\ Scaled(ValueOf(I, <<"bztp", p>>),
                                            Times(multi, item.perc[p]))
                            /\ \A c \in DOMAIN item.rc :
                                  Cardinality({i \in Named(I, <<"bztcode">>) :
                                                  records[i].tags.rc = c}) = 1
                            /\ Exactly(ValueOf(I, <<"bztavg">>), Times(multi, item.avg_rt))
                            /\ Exactly(ValueOf(I, <<"bztlat">>), Times(multi, item.avg_lt))
                            /\ Exactly(ValueOf(I, <<"bztconn">>), Times(multi, item.avg_ct))
                            /\ Scaled(ValueOf(I, <<"bztmin">>), Bound(item, "0.0"))
                            /\ Scaled(ValueOf(I, <<"bztmax">>), Bound(item, "100.0"))
                  /\ \A l \in DOMAIN w.cumulative :
                        LET item == w.cumulative[l]
                            I == Cumulative(w, l)
                        IN  /\ Cardinality(I) = Cardinality(DOMAIN item.perc)
                            /\ \A p \in DOMAIN item.perc :
                                  /\ Cardinality(Named(I, <<"bztpc", p>>)) = 1
                                  /\ Scaled(ValueOf(I, <<"bztpc", p>>),
                                            Times(multi, item.perc[p]))

\* C18 as stated: for every window and multiplier the serializer emits exactly
\* those records, every end-time is window.timestamp * multiplier, and every
\* duration value, the percentiles and min/max included, equals the raw value
\* times the multiplier (min/max are 0 when their percentile key is absent).
C18_RecordsScaledExactly == Returned => Emitted(Exactly)

\* C18 (amended): the same records and end-times; the averages (response
\* time, latency, connect time) equal the raw value times the multiplier,
\* while every percentile value, and min/max taken from the percentiles "0.0"
\* and "100.0", is the raw value times the multiplier with its fraction cut
\* off (an integer); min/max are 0 when their key is absent.
C18_RecordsScaledPercentilesTruncated == Returned => Emitted(Truncated)

\* two windows were serialized with multiplier 1 and the median of half a
\* second was emitted as 0
C18_Witness ==
    /\ Returned
    /\ Len(call.data_buffer) = 2
    /\ call.multi = 1
    /\ DOMAIN call.data_buffer[1].current = {"", "a"}
    /\ \E i \in DOMAIN result[2] :
          /\ result[2][i].name = <<"bztp", "50.0">>
          /\ result[2][i].value = Whole(0)
          /\ call.data_buffer[1].current[""].perc["50.0"] = Raw(1)

\* C19: create_pdf retries while the link is null: when the snapshot mutation
\* answers with a null link the mutation is issued again, at most retry budget
\* times more.
C19_PdfRetriesNullLink ==
    (pdf_reply = "null") => pdf_mutations \in 2..(DashboardRetryLimit + 1)

\* C20: prepare validates the session (ingest token resolved, probe passed)
\* before it resolves the dashboard: while prepare runs dashboard_link the
\* token is resolved and the probe has answered, and a prepare that aborted
\* for an absent ingest token or a failed probe has issued no dashboard search
\* and no create mutation.
C20_SessionValidatedBeforeDashboard ==
    /\ (handler = "prepare" /\ pc \in {"dl_search", "dc_mutation", "dc_poll"})
          => (Truthy(token) /\ ping_status \in 1..(PingStatusLimit - 1))
    /\ (pc = "aborted" /\ raised \in {"TaurusConfigError", "Exception"})
          => gql \cap DashboardRequests = {}

\* post_process re-resolves the link of a dashboard that prepare created: its
\* guid is the one the polling of dashboard_create stored
ReResolvesCreated ==
    /\ handler = "post_process"
    /\ pc \in {"dl_search", "dc_mutation"}
    /\ dashboard_guid # EmptyGuid
    /\ dashboard_guid[2] = "parent"

\* C21: over prepare followed by post_process at most one create mutation is
\* issued: when prepare created the dashboard, the re-resolution of
\* post_process does not enter dashboard_create again, also when the search by
\* name still answers with count 0.
C21_CreateAtMostOncePerRun ==
    ReResolvesCreated => pc # "dc_mutation"

\* C22: one flush runs at most two rounds of the batch-send, each of at most
\* retry_limit + 1 transport calls, so at most 2 * (retry_limit + 1) calls in
\* all; the rounds are separated by exactly one sleep of the session timeout;
\* the second round starts only after the first round used all its calls and
\* failed with a network-class error, and after the second round the flush
\* is over.
C22_FlushBoundedTwoRounds ==
    [][ /\ InFlush
              => /\ round \in 1..2
                 /\ attempts <= SessionRetryLimit + 1
                 /\ sleeps = (IF round = 2 THEN <<timeout>> ELSE <<>>)
        /\ (attempts' = attempts + 1)
              => (round' - 1) * (SessionRetryLimit + 1) + attempts'
                    <= 2 * (SessionRetryLimit + 1)
        /\ (round = 1 /\ round' = 2)
              => /\ IsNetworkError(req_result)
                 /\ attempts = SessionRetryLimit + 1
                 /\ sleeps' = <<timeout>>
        /\ (pc = "sr_after" /\ round = 2) => (pc' \notin {"rq_send", "sr_after"})
      ]_vars

\* a flush made all its 2 * (retry_limit + 1) transport calls
C22_Witness ==
    /\ pc = "sr_after"
    /\ round = 2
    /\ attempts = SessionRetryLimit + 1
    /\ req_result \in TransportErrors
    /\ sleeps = <<SessionTimeout>>

IdsOf(windows) == {windows[i].id : i \in DOMAIN windows}

\* the windows are in the order of their arrival
InArrivalOrder(windows) ==
    \A i, j \in DOMAIN windows : i < j => windows[i].id < windows[j].id

\* check or post_process hands the buffer to the decorated __send_data
FlushStarts == pc = "running" /\ pc' = "rq_send"

\* the decorated __send_data returns or raises
FlushEnds == pc = "sr_after" /\ pc' \notin {"rq_send", "sr_after"}

\* a change of the buffer is the append of a new window, or the removal, at
\* the end of a flush, of windows that were in its batch
OnlyFlushedRemoved ==
    (kpi_buffer' # kpi_buffer)
        => \/ /\ nextId' = nextId + 1
              /\ SubSeq(kpi_buffer', 1, Len(kpi_buffer)) = kpi_buffer
           \/ /\ FlushEnds
              /\ IdsOf(kpi_buffer) \ IdsOf(kpi_buffer') \subseteq IdsOf(data)

\* C23 as stated: whatever the outcome of a send, the windows of the batch of
\* a flush are out of the buffer when the flush ends, so that no later flush
\* includes them again; a batch is the buffer in arrival order; a window
\* leaves the buffer only as part of a flushed batch.
C23_FlushesPartitionStream ==
    [][ /\ FlushEnds => IdsOf(data) \cap IdsOf(kpi_buffer') = {}
        /\ FlushStarts => (data' = kpi_buffer /\ InArrivalOrder(data'))
        /\ OnlyFlushedRemoved ]_vars

\* C23 (amended): a flush that returns, after a success or after the network
\* retries are exhausted, leaves the buffer empty, so that its windows are in
\* no later batch; a flush that a non-network exception leaves keeps the
\* buffer, so that the same windows are in the batch of the next flush again;
\* a batch is the buffer in arrival order; a window leaves the buffer only as
\* part of a flushed batch.
C23_FlushesPartitionUnlessRaised ==
    [][ /\ (FlushEnds /\ raised' = None) => kpi_buffer' = <<>>
        /\ (FlushEnds /\ raised' # None)
              => /\ ~IsNetworkError(raised')
                 /\ kpi_buffer' = data
        /\ FlushStarts => (data' = kpi_buffer /\ InArrivalOrder(data'))
        /\ OnlyFlushedRemoved ]_vars

\* a tick's flush of two windows was left by a non-network exception, the two
\* windows are still buffered and the final flush can send them again
C23_Witness ==
    /\ pc = "running"
    /\ raised = "ValueError"
    /\ Len(kpi_buffer) = 2
    /\ last_flush = now
    /\ first_ts <= kpi_buffer[1].ts
    /\ ENABLED PostProcessSends

\* the checks prepare makes before it resolves the dashboard
DashboardChecks == {"token", "account", "api", "template"}

\* the checks that were made when prepare is at a position
ChecksMadeAt(position) ==
    CASE position = "p_account" -> {"token"}
      [] position = "p_api_check" -> {"token", "account"}
      [] position = "p_template" -> {"token", "account", "api"}
      [] OTHER -> DashboardChecks

\* C24: after the token check the enablement only decreases: while prepare
\* runs, and up to its end, dashboard_generator_on is true only if every check
\* made so far passed (management token resolved, account id known, api_check
\* succeeded, template read); a step after the token check never turns it
\* on; and dashboard_link runs, in prepare and in post_process, only while
\* it is on.
C24_EnablementOnlyDecreases ==
    [][ /\ (handler = "prepare" /\ dashboard_generator_on)
              => ChecksMadeAt(pc) \subseteq checks
        /\ (handler = "prepare" /\ pc \in {"p_token", "p_ping"})
              => (dashboard_generator_on <=> checks = DashboardChecks)
        /\ (pc # "init" /\ dashboard_generator_on') => dashboard_generator_on
        /\ (pc \in {"dl_search", "dc_mutation", "dc_poll"}) => dashboard_generator_on
      ]_vars

\* prepare is at its last step with the generator off because api_check
\* failed although the token was resolved, the account known and the
\* template read
C24_Witness ==
    /\ handler = "prepare"
    /\ pc = "p_ping"
    /\ ~dashboard_generator_on
    /\ checks = DashboardChecks \ {"api"}

====
